---- MODULE Spec2Model ----
(***************************************************************************)
(* bb8 connection pool (src/bb8/src/lib.rs) as a state machine.            *)
(*                                                                         *)
(* State: the PoolInternals behind the tokio Mutex (waiters, conns,        *)
(* num_conns, pending_conns), the mutex itself, and the position of every  *)
(* task between two await points: callers running get/run/drop, spawned    *)
(* add_connection futures, spawned replenishers, the reaper, and a thread  *)
(* calling state().  One action is the code a task runs from one await     *)
(* point to the next.                                                      *)
(*                                                                         *)
(* Time.  Durations are in milliseconds.  The code reads an Instant only   *)
(* to subtract it from Instant::now() and compare the difference with a    *)
(* configured Duration, so an Instant field (birth, idle_start, start,     *)
(* checkout, ...) holds the Duration elapsed since that instant; Tick lets *)
(* TickMs pass and advances every such field.  A field stops advancing at  *)
(* the first value that decides every comparison the code makes with it.   *)
(***************************************************************************)
EXTENDS Integers, Sequences, FiniteSets, TLC

\* ---------------------------------------------------------------- bounds
NumCallers == 2       \* tasks calling get / run / dropping handles
MaxConnectors == 2    \* add_connection futures alive at once
MaxRepl == 1          \* replenishers spawned and not yet started
MaxWaiters == 2       \* senders queued in PoolInternals.waiters
NumThreads == 2       \* executor threads polling the tasks

\* ------------------------------------------------------ program constants
BackoffMin == 200     \* Duration::from_millis(200), lib.rs:500

\* the clock advances in steps of the smallest backoff
TickMs == BackoffMin

Callers == 1..NumCallers
Slots == 1..MaxConnectors

\* Option<T>
None == [some |-> FALSE, val |-> 0]
Some(v) == [some |-> TRUE, val |-> v]

Min(a, b) == IF a < b THEN a ELSE b
Max(a, b) == IF a > b THEN a ELSE b

\* Builder: the frozen configuration (statics) of a pool.
Builder(ms, mi, toc, ml, it, ct, rr) ==
  [max_size |-> ms, min_idle |-> mi, test_on_check_out |-> toc,
   max_lifetime |-> ml, idle_timeout |-> it,
   connection_timeout |-> ct, reaper_rate |-> rr]

\* The pools explored by Spec: a pool of one connection that reaps, a pool
\* of two that keeps two idle, and a pool that does not test on check-out.
Configs ==
  { Builder(1, None, TRUE, Some(400), Some(200), 200, 200),
    Builder(2, Some(2), TRUE, None, None, 200, 200),
    Builder(1, None, FALSE, None, None, 200, 200) }

\* The pool explored by SpecThreads: two connections, no reaper (new_inner
\* spawns none when max_lifetime and idle_timeout are both None).
ThreadConfigs ==
  { Builder(2, None, TRUE, None, None, 200, 200) }

\* A Conn<C>: the connection value and its birth.  NoConn: no record.
Conn(b) == [birth |-> b]
NoConn == [birth |-> 0 - 1]
\* An IdleConn<C>
IdleConn(c, t) == [conn |-> c, idle_start |-> t]

VARIABLES
  statics,        \* SharedPool.statics
  lock,           \* SharedPool.internals mutex: 0 free, c = held by caller c's get_conn
  waiters,        \* PoolInternals.waiters: caller whose Receiver is alive, or 0 (Receiver dropped)
  conns,          \* PoolInternals.conns
  num_conns,      \* PoolInternals.num_conns
  pending_conns,  \* PoolInternals.pending_conns
  caller,         \* per caller task: position, connection held, oneshot slot
  connector,      \* per add_connection future: position and locals
  replSpawned,    \* spawn_replenishing tasks not yet past their first lock
  reaper,         \* schedule_reaping task: armed, time since the last tick was due
  observer        \* the thread inside Pool::state

vars == <<statics, lock, waiters, conns, num_conns, pending_conns,
          caller, connector, replSpawned, reaper, observer>>

\* ----------------------------------------------------------------- tasks
\* caller.pc:
\*   "idle"     outside any pool operation
\*   "get_lock" in get_conn, about to lock at the top of the loop (retry)
\*   "is_valid" suspended in manager.is_valid (lib.rs:698), guard alive
\*   "enqueue"  left the loop with no idle conn, about to lock at lib.rs:716
\*   "waiting"  suspended in or_timeout(rx) (lib.rs:727)
\*   "rx_drop"  the timeout future resolved Err / the get future is being
\*              dropped: the Receiver is about to be dropped
\*   "holding"  owns a checked-out connection
\*   "drop_blocked" in PooledConnection::drop, block_on parked on the lock
\* via: "get" (a PooledConnection) or "run"; waited: time in or_timeout;
\* valid: the connection held passed is_valid in this checkout;
\* err: the RunError get_conn is returning ("none": no error).
IdleCaller ==
  [pc |-> "idle", conn |-> NoConn, inbox |-> NoConn, via |-> "none",
   checkout |-> 0, waited |-> 0, valid |-> FALSE, err |-> "none"]

\* connector.pc: "free" | "start" (lock at 463) | "connect" (480) |
\*   "sleep" (502) | "conn_lock" (488) | "fail_lock" (496)
\* parent: 0 for a task spawned by get_conn, g > 0 for the g-th
\* FuturesUnordered of a replenisher.  slept: time in delay_for.
FreeConnector ==
  [pc |-> "free", parent |-> 0, start |-> 0, delay |-> 0, slept |-> 0,
   birth |-> 0]

\* Pool::new_inner followed by the first spawn_replenishing of
\* build_unchecked (build runs the same replenisher before returning).
InitIn(cfgs) ==
  /\ statics \in cfgs
  /\ lock = 0
  /\ waiters = <<>>
  /\ conns = <<>>
  /\ num_conns = 0
  /\ pending_conns = 0
  /\ caller = [c \in Callers |-> IdleCaller]
  /\ connector = [k \in Slots |-> FreeConnector]
  /\ replSpawned = 1
  /\ reaper = [armed |-> statics.max_lifetime.some \/ statics.idle_timeout.some,
               since |-> 0]
  /\ observer = [pc |-> "idle", connections |-> 0, idle_connections |-> 0]

\* ------------------------------------------------------------- executor
\* Threads held by synchronous code that does not yield: the try_lock spin
\* of state() and the block_on of PooledConnection::drop.
Pinned ==
  Cardinality({c \in Callers : caller[c].pc = "drop_blocked"})
    + (IF observer.pc = "spin" THEN 1 ELSE 0)
\* A task can be polled only by a thread that is not pinned.
FreeThread == Pinned < NumThreads

\* ---------------------------------------------------------------- clock
\* the first instant of the clock at or after d
Grid(d) == ((d + TickMs - 1) \div TickMs) * TickMs
\* where an elapsed time stops being counted: compared by <, >= with d
CapOf(opt) == IF opt.some THEN Grid(opt.val) ELSE 0
AgeCap == CapOf(statics.max_lifetime)
IdleCap == CapOf(statics.idle_timeout)
Adv(d, cap) == Min(d + TickMs, Max(d, cap))

TickConn(c) == IF c = NoConn THEN c ELSE Conn(Adv(c.birth, AgeCap))
TickCaller(r) ==
  [r EXCEPT !.conn = TickConn(r.conn),
            !.inbox = TickConn(r.inbox),
            !.checkout = IF r.pc \in {"holding", "drop_blocked"} /\ r.via = "get"
                         THEN Adv(r.checkout, AgeCap) ELSE r.checkout,
            !.waited = IF r.pc = "waiting"
                       THEN Adv(r.waited, Grid(statics.connection_timeout))
                       ELSE r.waited]
TickConnector(r) ==
  [r EXCEPT !.start = IF r.pc \in {"connect", "sleep"}
                      THEN Adv(r.start, Grid(statics.connection_timeout + 1))
                      ELSE r.start,
            !.slept = IF r.pc = "sleep" THEN Adv(r.slept, Grid(r.delay)) ELSE r.slept,
            !.birth = IF r.pc = "conn_lock"
                      THEN Adv(r.birth, Max(AgeCap, IdleCap)) ELSE r.birth]
TickIdle(rec) ==
  IdleConn(TickConn(rec.conn), Adv(rec.idle_start, IdleCap))

\* TickMs pass.
Tick ==
  /\ conns' = [i \in 1..Len(conns) |-> TickIdle(conns[i])]
  /\ caller' = [c \in Callers |-> TickCaller(caller[c])]
  /\ connector' = [k \in Slots |-> TickConnector(connector[k])]
  /\ reaper' = [reaper EXCEPT !.since =
        IF reaper.armed THEN Adv(reaper.since, 2 * Grid(statics.reaper_rate))
        ELSE reaper.since]
  /\ UNCHANGED <<statics, lock, waiters, num_conns, pending_conns,
                 replSpawned, observer>>

\* ------------------------------------------------------- pure operators
\* A capacity test that is off by one.
HasCapacity_OffByOne(num, pending, max_size) == num + pending <= max_size

\* The capacity test of add_connection, drop_connections and get_conn:
\* num_conns + pending_conns < max_size.
HasCapacity(num, pending, max_size) == num + pending < max_size

\* waiter.send(conn) succeeds iff the Receiver has not been dropped.
ReceiverAlive(w) == w # 0

\* A put_idle_conn that parks the record at the front of conns (push_front).
RECURSIVE put_idle_conn_push_front(_, _, _, _)
put_idle_conn_push_front(ws, idle, cs, rec) ==
  IF ws # <<>>
  THEN IF ReceiverAlive(Head(ws))
       THEN [waiters |-> Tail(ws), conns |-> idle,
             caller |-> [cs EXCEPT ![Head(ws)].inbox = rec.conn]]
       ELSE put_idle_conn_push_front(Tail(ws), idle, cs, rec)
  ELSE [waiters |-> <<>>, conns |-> <<rec>> \o idle, caller |-> cs]

\* A put_idle_conn that serves the waiter queued last (pop_back).
RECURSIVE put_idle_conn_pop_back(_, _, _, _)
put_idle_conn_pop_back(ws, idle, cs, rec) ==
  IF ws # <<>>
  THEN LET n == Len(ws)
       IN  IF ReceiverAlive(ws[n])
           THEN [waiters |-> SubSeq(ws, 1, n - 1), conns |-> idle,
                 caller |-> [cs EXCEPT ![ws[n]].inbox = rec.conn]]
           ELSE put_idle_conn_pop_back(SubSeq(ws, 1, n - 1), idle, cs, rec)
  ELSE [waiters |-> <<>>, conns |-> Append(idle, rec), caller |-> cs]

\* PoolInternals::put_idle_conn: hand the record to the first waiter whose
\* Receiver is alive, popping the dead ones; park it at the back of conns
\* when no waiter is left.  ws, idle, cs: waiters, conns, caller.
RECURSIVE put_idle_conn(_, _, _, _)
put_idle_conn(ws, idle, cs, rec) ==
  IF ws # <<>>
  THEN IF ReceiverAlive(Head(ws))
       THEN [waiters |-> Tail(ws), conns |-> idle,
             caller |-> [cs EXCEPT ![Head(ws)].inbox = rec.conn]]
       ELSE put_idle_conn(Tail(ws), idle, cs, rec)
  ELSE [waiters |-> <<>>, conns |-> Append(idle, rec), caller |-> cs]

\* A drop_connections that counts every dropped connection twice.
drop_connections_twice(num, dropped) == num - 2 * dropped

\* A drop_connections that forgets to count the dropped connections.
drop_connections_keep(num, dropped) == num

\* drop_connections: the new num_conns.
drop_connections(num, dropped) == num - dropped

\* A retain predicate that keeps a record for one instant too long.
ReaperKeeps_Inclusive(rec) ==
  /\ statics.idle_timeout.some => rec.idle_start <= statics.idle_timeout.val
  /\ statics.max_lifetime.some => rec.conn.birth <= statics.max_lifetime.val

\* The retain predicate of the reaper (now - idle_start, now - birth).
ReaperKeeps(rec) ==
  /\ statics.idle_timeout.some => rec.idle_start < statics.idle_timeout.val
  /\ statics.max_lifetime.some => rec.conn.birth < statics.max_lifetime.val

\* The backoff of add_connection's retry loop: the delay slept after a
\* failed connect, from the previous delay.
NextDelay(connection_timeout, delay) ==
  Min(connection_timeout \div 2, Max(BackoffMin, delay) * 2)

\* replenish_idle_connections: how many add_connection futures it pushes.
ReplenishCount(max_size, num, pending, idle, min_idle) ==
  LET slots_available == max_size - num - pending
      desired == IF min_idle.some THEN min_idle.val ELSE 0
  IN  Max(idle, Min(desired, idle + slots_available)) - idle

\* IdleConn::make_idle
make_idle(c) == IdleConn(c, 0)

\* ------------------------------------------------------------- spawning
\* Pool::spawn_replenishing, when `b`.
SpawnReplenishing(b) ==
  /\ b => replSpawned < MaxRepl
  /\ replSpawned' = IF b THEN replSpawned + 1 ELSE replSpawned

FreeSlots == {k \in Slots : connector[k].pc = "free"}
\* the n lowest free slots
RECURSIVE Lowest(_, _)
Lowest(S, n) ==
  IF n = 0 \/ S = {} THEN {}
  ELSE LET m == CHOOSE x \in S : \A y \in S : x <= y
       IN  {m} \cup Lowest(S \ {m}, n - 1)
StartConnector(g) == [FreeConnector EXCEPT !.pc = "start", !.parent = g]

\* -------------------------------------------------- Pool::get_conn / get
\* What get / run leave with the caller once get_conn returned Ok(conn):
\* get wraps it with checkout = Instant::now() (lib.rs:737-741).
Holding(c, v, ok) ==
  [IdleCaller EXCEPT !.pc = "holding", !.conn = c, !.via = v, !.valid = ok]

\* lib.rs:685-712: one turn of the loop up to the next await.
GetPop(c) ==
  /\ caller[c].pc \in {"idle", "get_lock"}
  /\ lock = 0
  /\ FreeThread
  /\ IF conns # <<>>
     THEN /\ conns' = Tail(conns)
          /\ SpawnReplenishing(HasCapacity(num_conns, pending_conns,
                                           statics.max_size))
          /\ IF statics.test_on_check_out
             THEN /\ lock' = c
                  /\ caller' = [caller EXCEPT ![c] =
                       [IdleCaller EXCEPT !.pc = "is_valid",
                                          !.conn = Head(conns).conn]]
             ELSE /\ lock' = 0
                  /\ \E v \in {"get", "run"} :
                       caller' = [caller EXCEPT ![c] =
                          Holding(Head(conns).conn, v, FALSE)]
     ELSE /\ caller' = [caller EXCEPT ![c] = [IdleCaller EXCEPT !.pc = "enqueue"]]
          /\ UNCHANGED <<conns, lock, replSpawned>>
  /\ UNCHANGED <<statics, waiters, num_conns, pending_conns, connector,
                 reaper, observer>>

\* lib.rs:698-705: manager.is_valid resolves Ok (ok) or Err.
is_valid(c, ok) ==
  /\ caller[c].pc = "is_valid"
  /\ FreeThread
  /\ IF ok
     THEN /\ \E v \in {"get", "run"} :
               caller' = [caller EXCEPT ![c] =
                  Holding(caller[c].conn, v, TRUE)]
          /\ UNCHANGED <<num_conns, replSpawned>>
     ELSE /\ num_conns' = drop_connections(num_conns, 1)
          /\ SpawnReplenishing(HasCapacity(num_conns', pending_conns,
                                           statics.max_size))
          /\ caller' = [caller EXCEPT ![c] = [IdleCaller EXCEPT !.pc = "get_lock"]]
  /\ lock' = 0
  /\ UNCHANGED <<statics, waiters, conns, pending_conns, connector,
                 reaper, observer>>

\* is_valid resolves, whatever the manager answers.
GetValid(c) == \E ok \in BOOLEAN : is_valid(c, ok)

\* lib.rs:714-725: register as a waiter, spawn add_connection if there is room.
GetEnqueue(c) ==
  /\ caller[c].pc = "enqueue"
  /\ lock = 0
  /\ FreeThread
  /\ Len(waiters) < MaxWaiters
  /\ waiters' = Append(waiters, c)
  /\ IF HasCapacity(num_conns, pending_conns, statics.max_size)
     THEN /\ FreeSlots # {}
          /\ connector' = [k \in Slots |->
               IF k \in Lowest(FreeSlots, 1) THEN StartConnector(0) ELSE connector[k]]
     ELSE UNCHANGED connector
  /\ caller' = [caller EXCEPT ![c].pc = "waiting"]
  /\ UNCHANGED <<statics, lock, conns, num_conns, pending_conns,
                 replSpawned, reaper, observer>>

\* lib.rs:727-728: the Receiver yields the connection.
GetRecv(c) ==
  /\ caller[c].pc = "waiting"
  /\ caller[c].inbox # NoConn
  /\ FreeThread
  /\ \E v \in {"get", "run"} :
       caller' = [caller EXCEPT ![c] = Holding(caller[c].inbox, v, FALSE)]
  /\ UNCHANGED <<statics, lock, waiters, conns, num_conns, pending_conns,
                 connector, replSpawned, reaper, observer>>

\* lib.rs:727-729: timeout() polls rx (Pending), then its timer (elapsed).
GetTimeout(c) ==
  /\ caller[c].pc = "waiting"
  /\ caller[c].inbox = NoConn
  /\ caller[c].waited >= statics.connection_timeout
  /\ FreeThread
  /\ caller' = [caller EXCEPT ![c].pc = "rx_drop", ![c].waited = 0,
                            ![c].err = "TimedOut"]
  /\ UNCHANGED <<statics, lock, waiters, conns, num_conns, pending_conns,
                 connector, replSpawned, reaper, observer>>

\* The caller drops the future of get while it is suspended at lib.rs:727.
GetCancel(c) ==
  /\ caller[c].pc = "waiting"
  /\ FreeThread
  /\ caller' = [caller EXCEPT ![c].pc = "rx_drop", ![c].waited = 0]
  /\ UNCHANGED <<statics, lock, waiters, conns, num_conns, pending_conns,
                 connector, replSpawned, reaper, observer>>

\* The Receiver is dropped: a value already sent is dropped with it, the
\* Sender still queued will fail its send.
GetDropRx(c) ==
  /\ caller[c].pc = "rx_drop"
  /\ FreeThread
  /\ waiters' = [i \in 1..Len(waiters) |-> IF waiters[i] = c THEN 0 ELSE waiters[i]]
  /\ caller' = [caller EXCEPT ![c] = IdleCaller]
  /\ UNCHANGED <<statics, lock, conns, num_conns, pending_conns,
                 connector, replSpawned, reaper, observer>>

\* --------------------------------------- Pool::put_back / run / drop
\* The birth put_back is called with: run passes conn.birth (lib.rs:654,660),
\* PooledConnection::drop passes self.checkout (lib.rs:805).
ReturnedBirth(r) == IF r.via = "run" THEN r.conn.birth ELSE r.checkout

\* PooledConnection::drop: block_on(put_back) finds the mutex held and
\* parks its thread.
DropBlock(c) ==
  /\ caller[c].pc = "holding"
  /\ caller[c].via = "get"
  /\ lock # 0
  /\ FreeThread
  /\ caller' = [caller EXCEPT ![c].pc = "drop_blocked"]
  /\ UNCHANGED <<statics, lock, waiters, conns, num_conns, pending_conns,
                 connector, replSpawned, reaper, observer>>

\* lib.rs:666-679, with the answer of manager.has_broken.
put_back(c, broken) ==
  /\ caller[c].pc \in {"holding", "drop_blocked"}
  /\ caller[c].pc = "holding" => FreeThread
  /\ lock = 0
  /\ IF broken
     THEN /\ num_conns' = drop_connections(num_conns, 1)
          /\ SpawnReplenishing(HasCapacity(num_conns', pending_conns,
                                           statics.max_size))
          /\ caller' = [caller EXCEPT ![c] = IdleCaller]
          /\ UNCHANGED <<waiters, conns>>
     ELSE LET r == put_idle_conn(waiters, conns,
                                 [caller EXCEPT ![c] = IdleCaller],
                                 make_idle(Conn(ReturnedBirth(caller[c]))))
          IN  /\ waiters' = r.waiters
              /\ conns' = r.conns
              /\ caller' = r.caller
              /\ UNCHANGED <<num_conns, replSpawned>>
  /\ UNCHANGED <<statics, lock, pending_conns, connector, reaper, observer>>

\* A connection comes back, whatever has_broken answers.
PutBack(c) == \E broken \in BOOLEAN : put_back(c, broken)

\* ------------------------------------------------------- add_connection
\* What an add_connection future leaves behind when it returns or is dropped.
Finished(k) == [connector EXCEPT ![k] = FreeConnector]

\* lib.rs:463-480: lock, test the capacity, count the attempt, unlock.
AddLock(k) ==
  /\ connector[k].pc = "start"
  /\ lock = 0
  /\ FreeThread
  /\ IF HasCapacity(num_conns, pending_conns, statics.max_size)
     THEN /\ pending_conns' = pending_conns + 1
          /\ connector' = [connector EXCEPT ![k].pc = "connect"]
     ELSE /\ connector' = Finished(k)
          /\ UNCHANGED pending_conns
  /\ UNCHANGED <<statics, lock, waiters, conns, num_conns, caller,
                 replSpawned, reaper, observer>>

\* lib.rs:480-487: manager.connect resolves Ok; the future goes on to lock.
ConnectOk(k) ==
  /\ connector[k].pc = "connect"
  /\ FreeThread
  /\ connector' = [connector EXCEPT ![k] =
        [FreeConnector EXCEPT !.pc = "conn_lock", !.parent = connector[k].parent]]
  /\ UNCHANGED <<statics, lock, waiters, conns, num_conns, pending_conns,
                 caller, replSpawned, reaper, observer>>

\* lib.rs:494-504: manager.connect resolves Err.
ConnectErr(k) ==
  /\ connector[k].pc = "connect"
  /\ FreeThread
  /\ IF connector[k].start > statics.connection_timeout
     THEN connector' = [connector EXCEPT ![k] =
            [FreeConnector EXCEPT !.pc = "fail_lock", !.parent = connector[k].parent]]
     ELSE connector' = [connector EXCEPT ![k].pc = "sleep",
            ![k].delay = NextDelay(statics.connection_timeout, connector[k].delay)]
  /\ UNCHANGED <<statics, lock, waiters, conns, num_conns, pending_conns,
                 caller, replSpawned, reaper, observer>>

\* lib.rs:502: delay_for elapses.
Wake(k) ==
  /\ connector[k].pc = "sleep"
  /\ connector[k].slept >= connector[k].delay
  /\ FreeThread
  /\ connector' = [connector EXCEPT ![k].pc = "connect", ![k].slept = 0]
  /\ UNCHANGED <<statics, lock, waiters, conns, num_conns, pending_conns,
                 caller, replSpawned, reaper, observer>>

\* lib.rs:488-492
ConnInsert(k) ==
  /\ connector[k].pc = "conn_lock"
  /\ lock = 0
  /\ FreeThread
  /\ pending_conns' = pending_conns - 1
  /\ num_conns' = num_conns + 1
  /\ LET b == connector[k].birth
         r == put_idle_conn(waiters, conns, caller,
                            IdleConn(Conn(Min(b, AgeCap)), Min(b, IdleCap)))
     IN  /\ waiters' = r.waiters
         /\ conns' = r.conns
         /\ caller' = r.caller
  /\ connector' = Finished(k)
  /\ UNCHANGED <<statics, lock, replSpawned, reaper, observer>>

\* The futures dropped when add_connection k returns Err: try_fold
\* (lib.rs:611) resolves at the first Err and the FuturesUnordered is dropped
\* with the futures still in it.
DroppedWith(k) ==
  IF connector[k].parent = 0 THEN {k}
  ELSE {j \in Slots : connector[j].pc # "free"
                      /\ connector[j].parent = connector[k].parent}

\* lib.rs:495-498
ConnFail(k) ==
  /\ connector[k].pc = "fail_lock"
  /\ lock = 0
  /\ FreeThread
  /\ pending_conns' = pending_conns - 1
  /\ connector' = [j \in Slots |->
        IF j \in DroppedWith(k) THEN FreeConnector ELSE connector[j]]
  /\ UNCHANGED <<statics, lock, waiters, conns, num_conns, caller,
                 replSpawned, reaper, observer>>

\* ------------------------------------------ replenish_idle_connections
\* lib.rs:597-609: a spawned replenisher reads the internals and pushes its
\* add_connection futures.
Replenish ==
  /\ replSpawned > 0
  /\ lock = 0
  /\ FreeThread
  /\ LET n == ReplenishCount(statics.max_size, num_conns, pending_conns,
                             Len(conns), statics.min_idle)
         used == {connector[k].parent : k \in Slots \ FreeSlots}
         g == CHOOSE x \in 1..(MaxConnectors + 1) :
                 x \notin used /\ \A y \in 1..(MaxConnectors + 1) : y \notin used => x <= y
     IN  /\ Cardinality(FreeSlots) >= n
         /\ connector' = [k \in Slots |->
               IF k \in Lowest(FreeSlots, n) THEN StartConnector(g) ELSE connector[k]]
  /\ replSpawned' = replSpawned - 1
  /\ UNCHANGED <<statics, lock, waiters, conns, num_conns, pending_conns,
                 caller, reaper, observer>>

\* ----------------------------------------------------- schedule_reaping
\* lib.rs:535-553: one tick of the reaper.
Reap ==
  /\ reaper.armed
  /\ reaper.since >= statics.reaper_rate
  /\ lock = 0
  /\ FreeThread
  /\ conns' = SelectSeq(conns, ReaperKeeps)
  /\ num_conns' = drop_connections(num_conns, Len(conns) - Len(conns'))
  /\ SpawnReplenishing(HasCapacity(num_conns', pending_conns, statics.max_size))
  /\ reaper' = [reaper EXCEPT !.since = reaper.since - statics.reaper_rate]
  /\ UNCHANGED <<statics, lock, waiters, pending_conns, caller,
                 connector, observer>>

\* ---------------------------------------------------------- Pool::state
\* lib.rs:627-632: a thread enters state() and spins on try_lock.
StateCall ==
  /\ observer.pc = "idle"
  /\ FreeThread
  /\ observer' = [pc |-> "spin", connections |-> 0, idle_connections |-> 0]
  /\ UNCHANGED <<statics, lock, waiters, conns, num_conns, pending_conns,
                 caller, connector, replSpawned, reaper>>

\* lib.rs:629-638: try_lock succeeds, the snapshot is taken.
StateReturn ==
  /\ observer.pc = "spin"
  /\ lock = 0
  /\ observer' = [pc |-> "idle", connections |-> num_conns,
                  idle_connections |-> Len(conns)]
  /\ UNCHANGED <<statics, lock, waiters, conns, num_conns, pending_conns,
                 caller, connector, replSpawned, reaper>>

\* ------------------------------------------------------- specification
\* The steps of the tasks every pool runs.
PoolStep ==
  \/ Tick
  \/ \E c \in Callers : GetPop(c)
  \/ \E c \in Callers : GetValid(c)
  \/ \E c \in Callers : GetEnqueue(c)
  \/ \E c \in Callers : GetRecv(c)
  \/ \E c \in Callers : GetTimeout(c)
  \/ \E c \in Callers : GetCancel(c)
  \/ \E c \in Callers : GetDropRx(c)
  \/ \E c \in Callers : PutBack(c)
  \/ \E k \in Slots : AddLock(k)
  \/ \E k \in Slots : ConnectOk(k)
  \/ \E k \in Slots : ConnectErr(k)
  \/ \E k \in Slots : Wake(k)
  \/ \E k \in Slots : ConnInsert(k)
  \/ \E k \in Slots : ConnFail(k)
  \/ Replenish

\* The pool on an executor that always has a thread to poll a task: no
\* thread is ever pinned, so FreeThread holds throughout.  state() changes
\* nothing in the pool and a pinned thread only delays the other tasks, so
\* every state of the internals the program reaches is reached here.
Init == InitIn(Configs)
Next == PoolStep \/ Reap
Spec == Init /\ [][Next]_vars

\* The pool together with the synchronous calls that pin a thread: state()
\* and the block_on of PooledConnection::drop.
InitThreads == InitIn(ThreadConfigs)
NextThreads ==
  \/ PoolStep
  \/ \E c \in Callers : DropBlock(c)
  \/ StateCall
  \/ StateReturn
SpecThreads == InitThreads /\ [][NextThreads]_vars

\* The pool with a manager whose connect always fails: connect never
\* resolves Ok, so no connection exists and the steps that need one
\* (is_valid, the delivery to a waiter, put_back) never run.
NextConnectFails ==
  \/ Tick
  \/ \E c \in Callers : GetPop(c)
  \/ \E c \in Callers : GetEnqueue(c)
  \/ \E c \in Callers : GetTimeout(c)
  \/ \E c \in Callers : GetCancel(c)
  \/ \E c \in Callers : GetDropRx(c)
  \/ \E k \in Slots : AddLock(k)
  \/ \E k \in Slots : ConnectErr(k)
  \/ \E k \in Slots : Wake(k)
  \/ \E k \in Slots : ConnFail(k)
  \/ Replenish
  \/ Reap
SpecConnectFails == Init /\ [][NextConnectFails]_vars

\* The pool with a manager whose is_valid always fails and whose connect
\* always succeeds, on the pools that test on check-out.
InvalidConfigs == {b \in Configs : b.test_on_check_out}
InitInvalid == InitIn(InvalidConfigs)
NextInvalid ==
  \/ Tick
  \/ \E c \in Callers : GetPop(c)
  \/ \E c \in Callers : is_valid(c, FALSE)
  \/ \E c \in Callers : GetEnqueue(c)
  \/ \E c \in Callers : GetRecv(c)
  \/ \E c \in Callers : GetTimeout(c)
  \/ \E c \in Callers : GetCancel(c)
  \/ \E c \in Callers : GetDropRx(c)
  \/ \E c \in Callers : PutBack(c)
  \/ \E k \in Slots : AddLock(k)
  \/ \E k \in Slots : ConnectOk(k)
  \/ \E k \in Slots : ConnInsert(k)
  \/ Replenish
  \/ Reap
SpecInvalid == InitInvalid /\ [][NextInvalid]_vars

\* The pools whose reaper ticks less often than the clock: one connection,
\* kept idle, a reaper tick every 400ms; the connection lives 400ms in one
\* pool and stays idle 200ms in the other.
ReaperConfigs ==
  { Builder(1, Some(1), TRUE, Some(400), None, 200, 400),
    Builder(1, Some(1), TRUE, None, Some(200), 200, 400) }
InitReaper == InitIn(ReaperConfigs)
SpecReaper == InitReaper /\ [][Next]_vars

\* The pool of two connections that keeps two idle, with a manager whose
\* connect always succeeds: no connect resolves Err, so add_connection never
\* sleeps and never fails.
MinIdleConfigs == {b \in Configs : b.min_idle.some}
InitMinIdle == InitIn(MinIdleConfigs)
NextConnectOk ==
  \/ Tick
  \/ \E c \in Callers : GetPop(c)
  \/ \E c \in Callers : GetValid(c)
  \/ \E c \in Callers : GetEnqueue(c)
  \/ \E c \in Callers : GetRecv(c)
  \/ \E c \in Callers : GetTimeout(c)
  \/ \E c \in Callers : GetCancel(c)
  \/ \E c \in Callers : GetDropRx(c)
  \/ \E c \in Callers : PutBack(c)
  \/ \E k \in Slots : AddLock(k)
  \/ \E k \in Slots : ConnectOk(k)
  \/ \E k \in Slots : ConnInsert(k)
  \/ Replenish
SpecConnectOk == InitMinIdle /\ [][NextConnectOk]_vars

\* The pool of two connections that times idle records out and does not
\* test on check-out: its idle records differ by their idle_start.
FifoConfigs ==
  { Builder(2, None, FALSE, None, Some(400), 200, 400) }
InitFifo == InitIn(FifoConfigs)
NextFifo ==
  \/ Tick
  \/ \E c \in Callers : GetPop(c)
  \/ \E c \in Callers : GetEnqueue(c)
  \/ \E c \in Callers : GetRecv(c)
  \/ \E c \in Callers : GetTimeout(c)
  \/ \E c \in Callers : GetCancel(c)
  \/ \E c \in Callers : GetDropRx(c)
  \/ \E c \in Callers : PutBack(c)
  \/ \E k \in Slots : AddLock(k)
  \/ \E k \in Slots : ConnectOk(k)
  \/ \E k \in Slots : ConnectErr(k)
  \/ \E k \in Slots : Wake(k)
  \/ \E k \in Slots : ConnInsert(k)
  \/ \E k \in Slots : ConnFail(k)
  \/ Replenish
  \/ Reap
SpecFifo == InitFifo /\ [][NextFifo]_vars

\* The pools whose manager's connect always fails, with a connection_timeout
\* that leaves room for the backoff to grow (1600ms) and one that caps it at
\* once (200ms); both arm the reaper.
BackoffConfigs ==
  { Builder(1, None, TRUE, None, Some(200), 1600, 200),
    Builder(1, None, TRUE, None, Some(200), 200, 200) }
InitBackoff == InitIn(BackoffConfigs)
SpecBackoff == InitBackoff /\ [][NextConnectFails]_vars

\* The pool with min_idle unset that tests on check-out and reaps, with a
\* manager whose connect always succeeds.
NoMinIdleConfigs ==
  {b \in Configs : ~b.min_idle.some /\ b.test_on_check_out}
InitNoMinIdle == InitIn(NoMinIdleConfigs)
NextNoMinIdle == NextConnectOk \/ Reap
SpecNoMinIdle == InitNoMinIdle /\ [][NextNoMinIdle]_vars

\* The shape of the state.
TypeOK ==
  /\ lock \in {0} \cup Callers
  /\ num_conns \in Nat
  /\ pending_conns \in Nat
  /\ Len(waiters) <= MaxWaiters
  /\ replSpawned \in 0..MaxRepl

\* ================================================================ claims
\* add_connection futures that counted themselves in pending_conns and have
\* not returned.
InFlight ==
  {k \in Slots : connector[k].pc \in {"connect", "sleep", "conn_lock", "fail_lock"}}

\* Connections opened and alive that num_conns is meant to count: parked in
\* conns, owned by a caller, or sent to a waiter that has not taken it yet.
Live ==
  Len(conns)
    + Cardinality({c \in Callers : caller[c].conn # NoConn})
    + Cardinality({c \in Callers : caller[c].inbox # NoConn})

\* C1: whenever the internals lock is free, num_conns + pending_conns is at
\* most max_size (the counters are u32: neither has wrapped below zero).
C1_CapacityBound ==
  lock = 0 =>
    /\ num_conns >= 0
    /\ pending_conns >= 0
    /\ num_conns + pending_conns <= statics.max_size

\* C1 witness: the pool is full, one attempt is pending next to a live
\* connection, and a further add_connection is about to test the capacity.
C1_Witness ==
  /\ lock = 0
  /\ statics.max_size = 2
  /\ num_conns = 1
  /\ pending_conns = 1
  /\ \E k \in Slots : connector[k].pc = "start"

\* C2: whenever the internals lock is free, a non-empty waiters queue means
\* an empty idle deque.
C2_WaitersImplyNoIdle ==
  (lock = 0 /\ Len(waiters) > 0) => Len(conns) = 0

\* C3: num_conns equals the number of live connections of the pool.
C3_NumConnsCountsLive == num_conns = Live

\* C4: with test_on_check_out, a connection in the hands of a caller has
\* passed is_valid during its checkout.
C4_HandedOutValidated ==
  \A c \in Callers :
    (statics.test_on_check_out /\ caller[c].pc = "holding") => caller[c].valid

\* Connections checked out: in the hands of a caller.
CheckedOut == Cardinality({c \in Callers : caller[c].pc \in {"holding", "drop_blocked"}})

\* A get whose or_timeout has nothing to yield and whose deadline has passed:
\* polled now, it returns TimedOut.
TimesOut(c) ==
  /\ caller[c].pc = "waiting"
  /\ caller[c].inbox = NoConn
  /\ caller[c].waited >= statics.connection_timeout

\* C5: at most max_size connections are checked out, num_conns is max_size
\* while they are, and a get blocked on a full pool does not time out while
\* a connection sits in the idle deque.
C5_BlockedGetServed ==
  /\ CheckedOut <= statics.max_size
  /\ CheckedOut = statics.max_size => num_conns = statics.max_size
  /\ \A c \in Callers :
       (lock = 0 /\ num_conns = statics.max_size /\ TimesOut(c)) => conns = <<>>

\* C6: a connection is sent to a waiter only when every waiter queued before
\* it has dropped its Receiver.
C6_WaiterFifo ==
  [][\A b \in Callers :
       (caller[b].inbox = NoConn /\ caller'[b].inbox # NoConn) =>
         \A i \in 1..Len(waiters) :
           waiters[i] = b => \A j \in 1..(i - 1) : ~ReceiverAlive(waiters[j])]_vars

\* C6 witness: two waiters were queued; the first has been sent a connection
\* and the second is still queued behind it.
C6_Witness ==
  \E a, b \in Callers :
    /\ a # b
    /\ caller[a].pc = "waiting" /\ caller[a].inbox # NoConn
    /\ caller[b].pc = "waiting" /\ caller[b].inbox = NoConn
    /\ waiters = <<b>>

\* C7: a connection sent to a waiter is not lost: it stays in the rendezvous
\* until the waiter takes it.
C7_SentNeverLost ==
  [][\A c \in Callers :
       caller[c].inbox # NoConn =>
         (caller'[c].inbox # NoConn \/ caller'[c].conn # NoConn)]_vars

\* C8: pending_conns equals the number of connect attempts in flight.
C8_PendingCountsInFlight == pending_conns = Cardinality(InFlight)

\* C9: a task suspended in manager.is_valid does not hold the internals lock
\* (add_connection drops its guard before connect and the backoff sleep;
\* only get_conn keeps a guard across an await).
C9_NoLockAcrossAwait ==
  \A c \in Callers : caller[c].pc = "is_valid" => lock # c

\* C10: state() does not deadlock: while it spins on try_lock, the lock is
\* free or the get_conn holding it can still be polled, so that the lock is
\* obtained in the end.
C10_StateNotStuck ==
  observer.pc = "spin" =>
    (lock = 0 \/ \E c \in Callers : lock = c /\ ENABLED GetValid(c))

\* An add_connection has had a connect fail and holds its error.
ConnectErrorSeen ==
  \E k \in Slots : connector[k].pc \in {"sleep", "fail_lock"}

\* C11: with a manager whose connect always fails, a get that fails after a
\* connect error returns User(e), and only once connection_timeout has
\* elapsed in its wait.
C11_FailsWithUserError ==
  [][\A c \in Callers :
       (caller[c].pc = "waiting" /\ caller'[c].err # "none"
          /\ ConnectErrorSeen) =>
         /\ caller'[c].err = "User"
         /\ caller[c].waited >= statics.connection_timeout]_vars

\* C12: with a manager whose is_valid always fails, no get hands a
\* connection to its caller (every get ends in TimedOut).
C12_NeverHandedOut ==
  \A c \in Callers : caller[c].pc \notin {"holding", "drop_blocked"}

\* C13: a failed is_valid in get is not surfaced: the step leads to the retry
\* of the loop with no error, the connection is neither parked nor sent to a
\* waiter, and num_conns goes down by exactly 1; a get that then succeeds on
\* a pool of one connection leaves num_conns = 1.
C13_InvalidDiscarded ==
  [][\A c \in Callers :
       /\ caller[c].pc = "is_valid" =>
            /\ caller'[c].pc \in {"is_valid", "holding", "get_lock"}
            /\ caller'[c].err = "none"
       /\ (caller[c].pc = "is_valid" /\ caller'[c].pc = "get_lock") =>
            /\ num_conns' = num_conns - 1
            /\ conns' = conns
            /\ waiters' = waiters
            /\ \A d \in Callers : caller'[d].inbox = caller[d].inbox
            /\ caller'[c].conn = NoConn
       /\ (statics.max_size = 1 /\ caller'[c].pc = "holding") =>
            num_conns' = 1]_vars

\* C13 witness: the only connection has just failed is_valid: the caller is
\* back at the top of the loop and the pool counts no connection.
C13_Witness ==
  \E c \in Callers :
    /\ caller[c].pc = "get_lock"
    /\ statics.max_size = 1
    /\ num_conns = 0
    /\ conns = <<>>
    /\ lock = 0

\* C14: a return that parks the connection or sends it to a waiter leaves
\* its birth as it was when the connection was checked out.
C14_BirthPreserved ==
  [][\A c \in Callers :
       (caller[c].pc \in {"holding", "drop_blocked"} /\ caller'[c].pc = "idle") =>
         /\ Len(conns') = Len(conns) + 1 =>
              conns'[Len(conns')].conn.birth = caller[c].conn.birth
         /\ \A d \in Callers :
              (caller[d].inbox = NoConn /\ caller'[d].inbox # NoConn) =>
                caller'[d].inbox.birth = caller[c].conn.birth]_vars

\* C15: with max_lifetime set, a connection returned after it has reached
\* its maximum lifetime is closed: not parked, not sent to a waiter, and
\* num_conns goes down by 1.
C15_ExpiredClosedOnReturn ==
  [][\A c \in Callers :
       (/\ caller[c].pc \in {"holding", "drop_blocked"}
        /\ caller'[c].pc = "idle"
        /\ statics.max_lifetime.some
        /\ caller[c].conn.birth >= statics.max_lifetime.val) =>
         /\ conns' = conns
         /\ \A d \in Callers : caller'[d].inbox = caller[d].inbox
         /\ num_conns' = num_conns - 1]_vars

\* C16: with max_lifetime set, the records of the idle deque are younger
\* than max_lifetime and stay so as long as they are in the deque, the
\* reaper being up to date with its ticks.
C16_IdleWithinLifetime ==
  [][(/\ statics.max_lifetime.some
      /\ reaper'.since < statics.reaper_rate
      /\ Len(conns') = Len(conns)
      /\ \A i \in 1..Len(conns) : conns[i].conn.birth < statics.max_lifetime.val) =>
       \A i \in 1..Len(conns') :
          conns'[i].conn.birth < statics.max_lifetime.val]_vars

\* No connector, replenisher, get or put_back is in progress and no waiter
\* is queued.
Quiescent ==
  /\ lock = 0
  /\ waiters = <<>>
  /\ replSpawned = 0
  /\ \A k \in Slots : connector[k].pc = "free"
  /\ \A c \in Callers : caller[c].pc \in {"idle", "holding"}

\* C17: with min_idle = k and a connect that always succeeds, a quiescent
\* pool has at least min(k, max_size - checked out) idle connections.
C17_MinIdleMaintained ==
  (statics.min_idle.some /\ Quiescent) =>
    Len(conns) >= Min(statics.min_idle.val, statics.max_size - CheckedOut)

\* C18: a return with has_broken true drops the connection: it is neither
\* parked nor sent to a waiter, num_conns goes down by exactly 1,
\* pending_conns, conns and waiters are unchanged, and a replenisher is
\* spawned iff num_conns + pending_conns < max_size afterwards.
C18_BrokenDropped ==
  [][\A c \in Callers :
       put_back(c, TRUE) =>
         /\ num_conns' = num_conns - 1
         /\ pending_conns' = pending_conns
         /\ conns' = conns
         /\ waiters' = waiters
         /\ \A d \in Callers : caller'[d].inbox = caller[d].inbox
         /\ caller'[c].conn = NoConn
         /\ IF num_conns' + pending_conns' < statics.max_size
            THEN replSpawned' = replSpawned + 1
            ELSE replSpawned' = replSpawned]_vars

\* C18 witness: a caller holds a connection of a full pool while a waiter
\* is queued, and its return with has_broken true can take place.
C18_Witness ==
  \E c \in Callers :
    /\ caller[c].pc = "holding"
    /\ num_conns = statics.max_size
    /\ Len(waiters) > 0
    /\ ENABLED put_back(c, TRUE)

\* C19: whenever the internals lock is free, the idle deque holds at most
\* num_conns records.
C19_IdleAtMostNumConns == lock = 0 => Len(conns) <= num_conns

\* C19 witness: every connection the pool counts is idle, after a get has
\* dropped one that failed is_valid and the replenisher has replaced it.
C19_Witness ==
  /\ lock = 0
  /\ num_conns = 2
  /\ Len(conns) = 2
  /\ \E c \in Callers : caller[c].pc = "get_lock"

\* The records a reaper tick is to remove: idle for idle_timeout or more, or
\* born max_lifetime or more ago.
Expired(rec) ==
  \/ statics.idle_timeout.some /\ rec.idle_start >= statics.idle_timeout.val
  \/ statics.max_lifetime.some /\ rec.conn.birth >= statics.max_lifetime.val
NotExpired(rec) == ~Expired(rec)

C21_IdleFifo ==
  [][/\ \A c \in Callers :
          (caller[c].pc \in {"idle", "get_lock"} /\ caller'[c].conn # NoConn) =>
            /\ conns # <<>>
            /\ caller'[c].conn = Head(conns).conn
            /\ conns' = Tail(conns)
     /\ Len(conns') = Len(conns) + 1 =>
          SubSeq(conns', 1, Len(conns)) = conns]_vars

\* C21 witness: two records are parked, the one at the front idle for longer
\* than the one at the back, and a get is about to pop.
C21_Witness ==
  /\ Len(conns) = 2
  /\ conns[1].idle_start > conns[2].idle_start
  /\ \E c \in Callers : ENABLED GetPop(c)

\* C22: in the retry loop of add_connection the sleep after the first
\* failed connect is min(connection_timeout / 2, 200ms), and every later
\* sleep is min(connection_timeout / 2, twice the previous sleep).
C22_BackoffSchedule ==
  [][\A k \in Slots :
       (connector[k].pc = "connect" /\ connector'[k].pc = "sleep") =>
         connector'[k].delay =
           Min(statics.connection_timeout \div 2,
               IF connector[k].delay = 0 THEN BackoffMin
               ELSE 2 * connector[k].delay)]_vars

\* A waiter is queued with its Receiver alive, nothing sent to it, and its
\* timeout not yet reached.
WaiterQueued ==
  \E i \in 1..Len(waiters) :
    /\ ReceiverAlive(waiters[i])
    /\ caller[waiters[i]].pc = "waiting"
    /\ caller[waiters[i]].inbox = NoConn
    /\ caller[waiters[i]].waited < statics.connection_timeout

\* C23: whenever the lock is free, a waiter is queued and
\* num_conns + pending_conns < max_size, an add_connection is running or a
\* replenisher that is to start one has been spawned.
C23_NoStrandedWaiter ==
  (lock = 0 /\ WaiterQueued
     /\ num_conns + pending_conns < statics.max_size) =>
    \/ \E k \in Slots : connector[k].pc # "free"
    \/ replSpawned > 0

====
